---------------------------- MODULE Spec2Model ----------------------------
(***************************************************************************)
(* Model of hft-service: the per-symbol segment-tree index                 *)
(* (src/src/segment_tree.rs), the symbol store (src/src/store.rs) and the  *)
(* HTTP handlers that drive them (src/src/lib.rs).                         *)
(*                                                                         *)
(* f64 values are modelled as exact rationals extended with the two        *)
(* infinities (a record [n, d] in lowest terms, d = 0 for an infinity):    *)
(* rounding is not modelled.  The DashMap is modelled as the library       *)
(* implements it: a fixed array of shards, each behind a reader/writer     *)
(* lock, a key living in the shard its hash selects.                       *)
(***************************************************************************)
EXTENDS Integers, Sequences, FiniteSets, Bags, TLC

(***************************************************************************)
(* Bounds of the model.  MAX_SYMBOLS, STARTING_CAPACITY and MAX_CAPACITY   *)
(* are the program's constants scaled down (10, 1_000_000 and 100_000_000  *)
(* in the source) so that the cap, the resize and the capacity limit are   *)
(* reached by logs of a few samples.                                       *)
(***************************************************************************)
MAX_SYMBOLS == 1

STARTING_CAPACITY == 2

MAX_CAPACITY == 2

MaxSamples == 3

NumShards == 2

Symbols == {"A", "B"}

Procs == {1, 2}

Batches == {<<>>, <<0>>, <<1, 4>>, <<3, -1>>}

\* The largest batch the service is specified to accept (10,000), scaled.
MAX_BATCH == 1

\* The batches Store::add_batch is called with.
StoreBatches == {<<>>, <<0>>, <<1, 4>>}

Windows == {1, 2}

Exponents == {0, 1, 8, 9}

\* The exponents sent while Store::add_batch is driven as well.
MixedExponents == {1, 9}

(***************************************************************************)
(* f64 as exact extended rationals.                                        *)
(***************************************************************************)
Abs(x) == IF x < 0 THEN -x ELSE x

RECURSIVE Gcd(_, _)
Gcd(a, b) == IF b = 0 THEN a ELSE Gcd(b, a % b)

F(n, d) ==
    IF d = 0 THEN [n |-> IF n > 0 THEN 1 ELSE -1, d |-> 0]
    ELSE LET s == IF d < 0 THEN -1 ELSE 1
             g == Gcd(Abs(n), Abs(d))
         IN [n |-> (s * n) \div g, d |-> (s * d) \div g]

FInt(i) == [n |-> i, d |-> 1]

INFINITY == [n |-> 1, d |-> 0]

NEG_INFINITY == [n |-> -1, d |-> 0]

FAdd(a, b) == F(a.n * b.d + b.n * a.d, a.d * b.d)

FSub(a, b) == F(a.n * b.d - b.n * a.d, a.d * b.d)

FMul(a, b) == F(a.n * b.n, a.d * b.d)

FDiv(a, b) == F(a.n * b.d, a.d * b.n)

FLt(a, b) ==
    IF a.d = 0 /\ b.d = 0 THEN a.n < b.n
    ELSE IF a.d = 0 THEN a.n < 0
    ELSE IF b.d = 0 THEN b.n > 0
    ELSE a.n * b.d < b.n * a.d

FLe(a, b) == a = b \/ FLt(a, b)

FMin(a, b) == IF FLt(b, a) THEN b ELSE a

FMax(a, b) == IF FLt(a, b) THEN b ELSE a

(***************************************************************************)
(* Node: the aggregate of a range (segment_tree.rs, struct Node).          *)
(***************************************************************************)
\* The node #[derive(Default)] would give: every field zero.
NodeDefaultDerived ==
    [min |-> FInt(0), max |-> FInt(0), count |-> 0,
     mean |-> FInt(0), m2 |-> FInt(0)]

NodeDefault ==
    [min |-> INFINITY, max |-> NEG_INFINITY, count |-> 0,
     mean |-> FInt(0), m2 |-> FInt(0)]

\* The node update_internal writes at a leaf.
NodeLeaf(value) ==
    [min |-> value, max |-> value, count |-> 1, mean |-> value, m2 |-> FInt(0)]

\* NodeAdd with the merged m2 taken as the sum of the two m2 (the term for
\* the distance between the two means left out).
NodeAddNoDelta(self, rhs) ==
    IF self.count = 0 THEN rhs
    ELSE IF rhs.count = 0 THEN self
    ELSE LET combined_count == self.count + rhs.count
             delta == FSub(rhs.mean, self.mean)
         IN [min |-> FMin(self.min, rhs.min),
             max |-> FMax(self.max, rhs.max),
             count |-> combined_count,
             mean |-> FAdd(self.mean, FMul(delta, F(rhs.count, combined_count))),
             m2 |-> FAdd(self.m2, rhs.m2)]

\* NodeAdd with the term for the distance between the two means subtracted.
NodeAddMinusDelta(self, rhs) ==
    IF self.count = 0 THEN rhs
    ELSE IF rhs.count = 0 THEN self
    ELSE LET combined_count == self.count + rhs.count
             delta == FSub(rhs.mean, self.mean)
         IN [min |-> FMin(self.min, rhs.min),
             max |-> FMax(self.max, rhs.max),
             count |-> combined_count,
             mean |-> FAdd(self.mean, FMul(delta, F(rhs.count, combined_count))),
             m2 |-> FSub(FAdd(self.m2, rhs.m2),
                         FMul(FMul(delta, delta),
                              F(self.count * rhs.count, combined_count)))]

\* NodeAdd with the two means added up, as a sum would be.
NodeAddSumMean(self, rhs) ==
    IF self.count = 0 THEN rhs
    ELSE IF rhs.count = 0 THEN self
    ELSE LET combined_count == self.count + rhs.count
             delta == FSub(rhs.mean, self.mean)
         IN [min |-> FMin(self.min, rhs.min),
             max |-> FMax(self.max, rhs.max),
             count |-> combined_count,
             mean |-> FAdd(self.mean, rhs.mean),
             m2 |-> FAdd(FAdd(self.m2, rhs.m2),
                         FMul(FMul(delta, delta),
                              F(self.count * rhs.count, combined_count)))]

\* NodeAdd with the new mean halfway between the two means, whatever the
\* counts.
NodeAddHalfway(self, rhs) ==
    IF self.count = 0 THEN rhs
    ELSE IF rhs.count = 0 THEN self
    ELSE LET combined_count == self.count + rhs.count
             delta == FSub(rhs.mean, self.mean)
         IN [min |-> FMin(self.min, rhs.min),
             max |-> FMax(self.max, rhs.max),
             count |-> combined_count,
             mean |-> FAdd(self.mean, FMul(delta, F(1, 2))),
             m2 |-> FAdd(FAdd(self.m2, rhs.m2),
                         FMul(FMul(delta, delta),
                              F(self.count * rhs.count, combined_count)))]

\* impl Add for Node: the Welford / Chan parallel merge.
NodeAdd(self, rhs) ==
    IF self.count = 0 THEN rhs
    ELSE IF rhs.count = 0 THEN self
    ELSE LET combined_count == self.count + rhs.count
             delta == FSub(rhs.mean, self.mean)
             new_mean == FAdd(self.mean,
                              FMul(delta, F(rhs.count, combined_count)))
             new_m2 == FAdd(FAdd(self.m2, rhs.m2),
                            FMul(FMul(delta, delta),
                                 F(self.count * rhs.count, combined_count)))
         IN [min |-> FMin(self.min, rhs.min),
             max |-> FMax(self.max, rhs.max),
             count |-> combined_count,
             mean |-> new_mean,
             m2 |-> new_m2]

(***************************************************************************)
(* SegmentTree: [tree, capacity], tree a function on 0 .. 2*capacity - 1.  *)
(* An operation that would index the array out of bounds panics: the       *)
(* model returns the tree with panicked set.                               *)
(***************************************************************************)
SegmentTreeNew(capacity) ==
    [tree |-> [i \in 0 .. (2 * capacity - 1) |-> NodeDefault],
     capacity |-> capacity,
     panicked |-> FALSE]

\* WalkUp with "if index > 1" for "while index > 1": only the parent of the
\* leaf is recomputed.
WalkUpOnce(tree, index) ==
    IF index > 1
    THEN LET i == index \div 2
         IN [tree EXCEPT ![i] = NodeAdd(tree[2 * i], tree[2 * i + 1])]
    ELSE tree

\* The while loop of update_internal: every ancestor of the leaf is
\* recomputed from its two children, bottom-up.
RECURSIVE WalkUp(_, _)
WalkUp(tree, index) ==
    IF index > 1
    THEN LET i == index \div 2
         IN WalkUp([tree EXCEPT ![i] = NodeAdd(tree[2 * i], tree[2 * i + 1])], i)
    ELSE tree

UpdateInternal(st, index, value) ==
    LET i == index + st.capacity
    IN IF st.panicked \/ i \notin DOMAIN st.tree
       THEN [st EXCEPT !.panicked = TRUE]
       ELSE [st EXCEPT !.tree = WalkUp([st.tree EXCEPT ![i] = NodeLeaf(value)], i)]

RECURSIVE Rebuild(_, _, _)
Rebuild(st, all_values, i) ==
    IF i > Len(all_values) THEN st
    ELSE Rebuild(UpdateInternal(st, i - 1, all_values[i]), all_values, i + 1)

\* Resize that rebuilds into a tree of the old capacity.
ResizeNoGrow(st, required_capacity, all_values) ==
    Rebuild(SegmentTreeNew(st.capacity), all_values, 1)

\* resize: a fresh tree of capacity max(2 * capacity, required_capacity),
\* every sample of the log re-inserted in order.
Resize(st, required_capacity, all_values) ==
    LET dbl == st.capacity * 2
        new_capacity == IF dbl > required_capacity THEN dbl ELSE required_capacity
    IN Rebuild(SegmentTreeNew(new_capacity), all_values, 1)

Update(st, index, value, all_values) ==
    IF index >= st.capacity
    THEN UpdateInternal(Resize(st, index + 1, all_values), index, value)
    ELSE UpdateInternal(st, index, value)

\* The loop of query; a cursor outside the array is a panic, reported as
\* count = -1.
NodePanic == [NodeDefault EXCEPT !.count = -1]

RECURSIVE QueryLoop(_, _, _, _, _)
QueryLoop(tree, left, right, res_left, res_right) ==
    IF left <= right
    THEN IF left \notin DOMAIN tree \/ right \notin DOMAIN tree \/ right = 0
         THEN NodePanic
         ELSE LET takeL == left % 2 = 1
                  takeR == right % 2 = 0
                  rl == IF takeL THEN NodeAdd(res_left, tree[left]) ELSE res_left
                  l1 == IF takeL THEN left + 1 ELSE left
                  rr == IF takeR THEN NodeAdd(tree[right], res_right) ELSE res_right
                  r1 == IF takeR THEN right - 1 ELSE right
              IN QueryLoop(tree, l1 \div 2, r1 \div 2, rl, rr)
    ELSE NodeAdd(res_left, res_right)

\* query with right taken as the first index after the range.
QueryHalfOpen(st, left, right) ==
    IF left >= right THEN NodeDefault
    ELSE QueryLoop(st.tree, left + st.capacity, right - 1 + st.capacity,
                   NodeDefault, NodeDefault)

Query(st, left, right) ==
    IF left > right THEN NodeDefault
    ELSE QueryLoop(st.tree, left + st.capacity, right + st.capacity,
                   NodeDefault, NodeDefault)

(***************************************************************************)
(* The store and its callers.                                              *)
(*   symbols  Store.symbols: the DashMap, a function from the keys present *)
(*            to SymbolData [values, tree]                                 *)
(*   lock     the reader/writer lock of each DashMap shard                 *)
(*   pc, req  each request thread's position and its locals                *)
(*   posted   per symbol, the bag of the values of the batches that have   *)
(*            returned success (history, read by no action)                *)
(*   acked    per symbol, the sample log as it stood when an add last      *)
(*            returned success (history, read by no action)                *)
(*   dropped  per symbol, whether add_batch_handler has found the log at   *)
(*            MAX_CAPACITY and logged its warning (history)                *)
(*   succeeded  per symbol, whether an add on it has returned success      *)
(*              (history, read by no action)                               *)
(***************************************************************************)
VARIABLES symbols, lock, pc, req, posted, acked, dropped, succeeded

vars == <<symbols, lock, pc, req, posted, acked, dropped, succeeded>>

Shards == 1 .. NumShards

\* DashMap::determine_map: the shard a key hashes to.  The hash is fixed for
\* the life of the map; the model fixes one assignment in which two keys
\* collide and two do not.
ShardOf == [s \in Symbols |-> IF s = "B" THEN NumShards ELSE 1]

NoRes == [kind |-> "None", msg |-> "", count |-> 0, min |-> FInt(0),
          max |-> FInt(0), last |-> FInt(0), avg |-> FInt(0), var |-> FInt(0)]

Err(kind, msg) == [NoRes EXCEPT !.kind = kind, !.msg = msg]

OkRes == [NoRes EXCEPT !.kind = "Ok"]

IdleReq == [op |-> "none", symbol |-> "", values |-> <<>>, window_size |-> 0,
            exponent |-> 0, j |-> 0, i |-> 0, acc |-> 0, base |-> 0,
            full |-> FALSE, seen |-> EmptyBag, res |-> NoRes]

\* serde: a JSON array of numbers as a Vec<f64>.
ToF64(batch) == [k \in 1 .. Len(batch) |-> FInt(batch[k])]

Keys == DOMAIN symbols

Log(s) == IF s \in Keys THEN symbols[s].values ELSE <<>>

\* History: the store held MAX_SYMBOLS symbols, symbol not among them, when
\* the add was called.
Full(symbol) == Cardinality(Keys) >= MAX_SYMBOLS /\ symbol \notin Keys

Adding(p) == req[p].op \in {"add_batch", "add_batch_handler"}

\* The samples of a running add that will return success.
InFlight(p) ==
    IF Adding(p) /\ (\/ pc[p] \in {"contains_key", "len", "entry", "loop"}
                     \/ pc[p] = "done" /\ req[p].res.kind = "Ok")
    THEN Len(req[p].values)
    ELSE 0

RECURSIVE SumOver(_, _)
SumOver(S, f) ==
    IF S = {} THEN 0
    ELSE LET e == CHOOSE e \in S : TRUE IN f[e] + SumOver(S \ {e}, f)

\* The model stops issuing adds once MaxSamples samples have been sent.
Room(n) ==
    SumOver(Symbols, [s \in Symbols |-> BagCardinality(posted[s])])
      + SumOver(Procs, [p \in Procs |-> InFlight(p)]) + n <= MaxSamples

\* A read lock that does not wait for the writer.
CanReadDespiteWriter(sh) == TRUE

\* RwLock::read returns once no writer holds the shard.
CanRead(sh) == lock[sh].writer = 0

\* A write lock that waits for nobody.
CanWriteAlways(sh) == TRUE

\* RwLock::write returns once nobody holds the shard.
CanWrite(sh) == lock[sh].writer = 0 /\ lock[sh].readers = {}

ReadLock(p, sh) == [lock EXCEPT ![sh].readers = @ \cup {p}]

WriteLock(p, sh) == [lock EXCEPT ![sh].writer = p]

\* A return that keeps the guards.
UnlockNothing(p) == lock

\* Dropping every guard p holds (Ref / RefMut going out of scope).
Unlock(p) ==
    [sh \in Shards |->
        [writer |-> IF lock[sh].writer = p THEN 0 ELSE lock[sh].writer,
         readers |-> lock[sh].readers \ {p}]]

Init ==
    /\ symbols = <<>>
    /\ lock = [sh \in Shards |-> [writer |-> 0, readers |-> {}]]
    /\ pc = [p \in Procs |-> "idle"]
    /\ req = [p \in Procs |-> IdleReq]
    /\ posted = [s \in Symbols |-> EmptyBag]
    /\ acked = [s \in Symbols |-> <<>>]
    /\ dropped = [s \in Symbols |-> FALSE]
    /\ succeeded = [s \in Symbols |-> FALSE]

(***************************************************************************)
(* Store::add_batch (store.rs 39-65).                                      *)
(***************************************************************************)
CallAddBatch(p, symbol, batch) ==
    /\ pc[p] = "idle"
    /\ Room(Len(batch))
    /\ req' = [req EXCEPT ![p] = [IdleReq EXCEPT !.op = "add_batch",
                                     !.symbol = symbol, !.values = ToF64(batch),
                                     !.j = 1, !.i = 1, !.full = Full(symbol)]]
    /\ pc' = [pc EXCEPT ![p] = "contains_key"]
    /\ UNCHANGED <<symbols, lock, posted, acked, dropped, succeeded>>

\* !self.symbols.contains_key(symbol) && ...: the shard is read-locked for
\* the lookup only.
AddBatchContainsKey(p) ==
    /\ pc[p] = "contains_key"
    /\ CanRead(ShardOf[req[p].symbol])
    /\ pc' = [pc EXCEPT ![p] = IF req[p].symbol \in Keys THEN "entry" ELSE "len"]
    /\ UNCHANGED <<symbols, lock, req, posted, acked, dropped, succeeded>>

\* ... self.symbols.len() >= MAX_SYMBOLS: DashMap::len read-locks one shard
\* after the other and adds up their sizes.
AddBatchLen(p) ==
    /\ pc[p] = "len"
    /\ CanRead(req[p].i)
    /\ LET acc == req[p].acc
                    + Cardinality({s \in Keys : ShardOf[s] = req[p].i})
       IN IF req[p].i < NumShards
          THEN /\ req' = [req EXCEPT ![p].i = @ + 1, ![p].acc = acc]
               /\ pc' = pc
          ELSE IF acc >= MAX_SYMBOLS
          THEN /\ req' = [req EXCEPT ![p].i = 1, ![p].acc = 0,
                             ![p].res = Err("BadRequest",
                                 "Maximum number of unique symbols ("
                                   \o ToString(MAX_SYMBOLS) \o ") reached.")]
               /\ pc' = [pc EXCEPT ![p] = "done"]
          ELSE /\ req' = [req EXCEPT ![p].i = 1, ![p].acc = 0]
               /\ pc' = [pc EXCEPT ![p] = "entry"]
    /\ UNCHANGED <<symbols, lock, posted, acked, dropped, succeeded>>

\* insert for or_insert_with: the key gets a fresh SymbolData even when it
\* is present.
OrInsertAlways(symbol, capacity) ==
    [s \in Keys \cup {symbol} |->
        IF s = symbol
        THEN [values |-> <<>>, tree |-> SegmentTreeNew(capacity)]
        ELSE symbols[s]]

\* An insert that leaves the new key alone in the map.
OrInsertAlone(symbol, capacity) ==
    IF symbol \in Keys THEN symbols
    ELSE [s \in {symbol} |-> [values |-> <<>>, tree |-> SegmentTreeNew(capacity)]]

\* entry(symbol).or_insert_with(..): write-locks the shard and inserts an
\* empty SymbolData when the key is absent; the guard is held from here on.
OrInsertWith(symbol, capacity) ==
    IF symbol \in Keys THEN symbols
    ELSE [s \in Keys \cup {symbol} |->
            IF s = symbol
            THEN [values |-> <<>>, tree |-> SegmentTreeNew(capacity)]
            ELSE symbols[s]]

AddBatchEntry(p) ==
    /\ pc[p] = "entry"
    /\ req[p].op = "add_batch"
    /\ CanWrite(ShardOf[req[p].symbol])
    /\ lock' = WriteLock(p, ShardOf[req[p].symbol])
    /\ symbols' = OrInsertWith(req[p].symbol, STARTING_CAPACITY)
    /\ IF Len(req[p].values) = 0
       THEN /\ pc' = [pc EXCEPT ![p] = "done"]
            /\ req' = [req EXCEPT ![p].base = Len(Log(req[p].symbol)),
                                  ![p].res = OkRes]
       ELSE /\ pc' = [pc EXCEPT ![p] = "loop"]
            /\ req' = [req EXCEPT ![p].base = Len(Log(req[p].symbol))]
    /\ UNCHANGED <<posted, acked, dropped, succeeded>>

\* values.push(*value); tree.update(values.len() - 1, *value, values)
PushAndUpdate(data, value) ==
    LET values == Append(data.values, value)
        new_index == Len(values) - 1
    IN [values |-> values, tree |-> Update(data.tree, new_index, value, values)]

\* One iteration of the for loop; after the last one the function is about
\* to return Ok(()).
AddBatchLoop(p) ==
    /\ pc[p] = "loop"
    /\ req[p].op = "add_batch"
    /\ LET s == req[p].symbol
           data == PushAndUpdate(symbols[s], req[p].values[req[p].j])
       IN /\ symbols' = [symbols EXCEPT ![s] = data]
          /\ IF data.tree.panicked
             THEN /\ pc' = [pc EXCEPT ![p] = "panicked"]
                  /\ req' = req
                  /\ lock' = Unlock(p)
             ELSE /\ lock' = lock
                  /\ IF req[p].j = Len(req[p].values)
                     THEN /\ pc' = [pc EXCEPT ![p] = "done"]
                          /\ req' = [req EXCEPT ![p].j = @ + 1, ![p].res = OkRes]
                     ELSE /\ pc' = pc
                          /\ req' = [req EXCEPT ![p].j = @ + 1]
    /\ UNCHANGED <<posted, acked, dropped, succeeded>>

(***************************************************************************)
(* add_batch_handler (lib.rs 95-143).                                      *)
(***************************************************************************)
\* No check for an empty batch.
IsEmptyNever(values) == FALSE

\* payload.values.is_empty()
IsEmpty(values) == Len(values) = 0

\* A check that looks at the first value only.
AnyNegativeFirst(values) == Len(values) >= 1 /\ FLt(values[1], FInt(0))

\* payload.values.iter().any(|&v| v < 0.0)
AnyNegative(values) == \E k \in DOMAIN values : FLt(values[k], FInt(0))

CallAddBatchHandler(p, symbol, batch) ==
    /\ pc[p] = "idle"
    /\ LET values == ToF64(batch)
           r == [IdleReq EXCEPT !.op = "add_batch_handler", !.symbol = symbol,
                                !.values = values, !.j = 1, !.i = 1,
                                !.full = Full(symbol)]
       IN IF IsEmpty(values)
          THEN /\ req' = [req EXCEPT ![p] = [r EXCEPT !.res =
                      Err("BadRequest", "Cannot add an empty batch of values")]]
               /\ pc' = [pc EXCEPT ![p] = "done"]
          ELSE IF AnyNegative(values)
          THEN /\ req' = [req EXCEPT ![p] = [r EXCEPT !.res =
                      Err("BadRequest", "Negative trading prices are not allowed")]]
               /\ pc' = [pc EXCEPT ![p] = "done"]
          ELSE /\ Room(Len(batch))
               /\ req' = [req EXCEPT ![p] = r]
               /\ pc' = [pc EXCEPT ![p] = "entry"]
    /\ UNCHANGED <<symbols, lock, posted, acked, dropped, succeeded>>

AddBatchHandlerEntry(p) ==
    /\ pc[p] = "entry"
    /\ req[p].op = "add_batch_handler"
    /\ CanWrite(ShardOf[req[p].symbol])
    /\ lock' = WriteLock(p, ShardOf[req[p].symbol])
    /\ symbols' = OrInsertWith(req[p].symbol, MAX_CAPACITY)
    /\ pc' = [pc EXCEPT ![p] = "loop"]
    /\ req' = [req EXCEPT ![p].base = Len(Log(req[p].symbol))]
    /\ UNCHANGED <<posted, acked, dropped, succeeded>>

\* if values.len() >= MAX_CAPACITY
\* A capacity check that lets one more sample in.
AtCapacityLate(values) == Len(values) > MAX_CAPACITY

AtCapacity(values) == Len(values) >= MAX_CAPACITY

\* One iteration: break when the log is full, else push and update.
AddBatchHandlerLoop(p) ==
    /\ pc[p] = "loop"
    /\ req[p].op = "add_batch_handler"
    /\ LET s == req[p].symbol
       IN IF AtCapacity(symbols[s].values)
          THEN /\ symbols' = symbols
               /\ lock' = lock
               /\ pc' = [pc EXCEPT ![p] = "done"]
               /\ req' = [req EXCEPT ![p].res = OkRes]
               /\ dropped' = [dropped EXCEPT ![s] = TRUE]
          ELSE LET data == PushAndUpdate(symbols[s], req[p].values[req[p].j])
               IN /\ symbols' = [symbols EXCEPT ![s] = data]
                  /\ IF data.tree.panicked
                     THEN /\ pc' = [pc EXCEPT ![p] = "panicked"]
                          /\ req' = req
                          /\ lock' = Unlock(p)
                     ELSE /\ lock' = lock
                          /\ IF req[p].j = Len(req[p].values)
                             THEN /\ pc' = [pc EXCEPT ![p] = "done"]
                                  /\ req' = [req EXCEPT ![p].j = @ + 1,
                                                        ![p].res = OkRes]
                             ELSE /\ pc' = pc
                                  /\ req' = [req EXCEPT ![p].j = @ + 1]
                  /\ dropped' = dropped
    /\ UNCHANGED <<posted, acked, succeeded>>

(***************************************************************************)
(* Store::get_stats (store.rs 69-108).                                     *)
(***************************************************************************)
Pow10(e) == IF e = 0 THEN 1 ELSE 10 ^ e

\* A strict window: no window when fewer points than asked for are stored.
ActualWindowSizeStrict(window_size, total_points) ==
    IF window_size > total_points THEN 0 ELSE window_size

\* window_size.min(total_points)
ActualWindowSize(window_size, total_points) ==
    IF window_size < total_points THEN window_size ELSE total_points

\* total_points.saturating_sub(actual_window_size)
StartIndex(total_points, actual_window_size) ==
    IF actual_window_size > total_points THEN 0
    ELSE total_points - actual_window_size

\* The first sample for the last.
LastValueFirst(values, total_points) == values[1]

\* data.values[total_points - 1]
LastValue(values, total_points) == values[total_points]

\* The body of get_stats once the entry is found.
GetStats(data, window_size) ==
    LET total_points == Len(data.values)
        actual_window_size == ActualWindowSize(window_size, total_points)
        start_index == StartIndex(total_points, actual_window_size)
        stats_node == Query(data.tree, start_index, total_points - 1)
    IN IF total_points = 0 THEN Err("NotEnoughData", "")
       ELSE IF actual_window_size = 0 THEN Err("NotEnoughData", "")
       ELSE IF stats_node.count = -1 THEN Err("Panic", "")
       ELSE IF stats_node.count = 0 THEN Err("NotEnoughData", "")
       ELSE [kind |-> "Stats", msg |-> "", count |-> stats_node.count,
             min |-> stats_node.min, max |-> stats_node.max,
             last |-> LastValue(data.values, total_points),
             avg |-> stats_node.mean,
             var |-> IF stats_node.count > 0
                     THEN FDiv(stats_node.m2, FInt(stats_node.count))
                     ELSE FInt(0)]

StatsReq(op, symbol, window_size) ==
    [IdleReq EXCEPT !.op = op, !.symbol = symbol, !.window_size = window_size,
                    !.seen = posted[symbol]]

CallGetStats(p, symbol, window_size) ==
    /\ pc[p] = "idle"
    /\ req' = [req EXCEPT ![p] = StatsReq("get_stats", symbol, window_size)]
    /\ pc' = [pc EXCEPT ![p] = "get"]
    /\ UNCHANGED <<symbols, lock, posted, acked, dropped, succeeded>>

\* A miss reported as a symbol without data.
SymbolNotFoundAsNotEnoughData(symbol) == Err("NotEnoughData", "")

\* .ok_or_else(|| AppError::SymbolNotFound(symbol.to_string()))
SymbolNotFound(symbol) == Err("SymbolNotFound", symbol)

\* A lookup that creates the entry it does not find, as entry().or_default()
\* would.
GetStatsGetOrInsert(p) ==
    /\ pc[p] = "get"
    /\ CanRead(ShardOf[req[p].symbol])
    /\ lock' = ReadLock(p, ShardOf[req[p].symbol])
    /\ symbols' = OrInsertWith(req[p].symbol, STARTING_CAPACITY)
    /\ pc' = [pc EXCEPT ![p] = "compute"]
    /\ req' = req
    /\ UNCHANGED <<posted, acked, dropped, succeeded>>

\* self.symbols.get(symbol): read-locks the shard; the Ref keeps the lock,
\* a miss releases it.
GetStatsGet(p) ==
    /\ pc[p] = "get"
    /\ CanRead(ShardOf[req[p].symbol])
    /\ IF req[p].symbol \in Keys
       THEN /\ lock' = ReadLock(p, ShardOf[req[p].symbol])
            /\ pc' = [pc EXCEPT ![p] = "compute"]
            /\ req' = req
       ELSE /\ lock' = lock
            /\ pc' = [pc EXCEPT ![p] = "done"]
            /\ req' = [req EXCEPT ![p].res = SymbolNotFound(req[p].symbol)]
    /\ UNCHANGED <<symbols, posted, acked, dropped, succeeded>>

GetStatsCompute(p) ==
    /\ pc[p] = "compute"
    /\ LET r == GetStats(symbols[req[p].symbol], req[p].window_size)
       IN IF r.kind = "Panic"
          THEN /\ pc' = [pc EXCEPT ![p] = "panicked"]
               /\ req' = req
               /\ lock' = Unlock(p)
          ELSE /\ pc' = [pc EXCEPT ![p] = "done"]
               /\ req' = [req EXCEPT ![p].res = r]
               /\ lock' = lock
    /\ UNCHANGED <<symbols, posted, acked, dropped, succeeded>>

(***************************************************************************)
(* get_stats_handler (lib.rs 146-174): the exponent check, then            *)
(* state.get_stats(symbol, 10^exponent).                                   *)
(***************************************************************************)
\* An exponent check that lets 0 through.
ExponentInRangeFromZero(exponent) == exponent \in 0 .. 8

\* (1..=8).contains(&params.exponent)
ExponentInRange(exponent) == exponent \in 1 .. 8

\* A handler that looks the symbol up before it checks the exponent.
CallGetStatsHandlerLookupFirst(p, symbol, exponent) ==
    /\ pc[p] = "idle"
    /\ IF symbol \notin Keys
       THEN /\ req' = [req EXCEPT ![p] =
                    [StatsReq("get_stats_handler", symbol, 0) EXCEPT
                        !.exponent = exponent,
                        !.res = SymbolNotFound(symbol)]]
            /\ pc' = [pc EXCEPT ![p] = "done"]
       ELSE IF ~ExponentInRange(exponent)
       THEN /\ req' = [req EXCEPT ![p] =
                    [StatsReq("get_stats_handler", symbol, 0) EXCEPT
                        !.exponent = exponent,
                        !.res = Err("BadRequest",
                                    "exponent must be an integer between 1 and 8")]]
            /\ pc' = [pc EXCEPT ![p] = "done"]
       ELSE /\ req' = [req EXCEPT ![p] =
                    [StatsReq("get_stats_handler", symbol, Pow10(exponent))
                        EXCEPT !.exponent = exponent]]
            /\ pc' = [pc EXCEPT ![p] = "get"]
    /\ UNCHANGED <<symbols, lock, posted, acked, dropped, succeeded>>

CallGetStatsHandler(p, symbol, exponent) ==
    /\ pc[p] = "idle"
    /\ IF ~ExponentInRange(exponent)
       THEN /\ req' = [req EXCEPT ![p] =
                    [StatsReq("get_stats_handler", symbol, 0) EXCEPT
                        !.exponent = exponent,
                        !.res = Err("BadRequest",
                                    "exponent must be an integer between 1 and 8")]]
            /\ pc' = [pc EXCEPT ![p] = "done"]
       ELSE /\ req' = [req EXCEPT ![p] =
                    [StatsReq("get_stats_handler", symbol, Pow10(exponent))
                        EXCEPT !.exponent = exponent]]
            /\ pc' = [pc EXCEPT ![p] = "get"]
    /\ UNCHANGED <<symbols, lock, posted, acked, dropped, succeeded>>

(***************************************************************************)
(* impl IntoResponse for AppError (lib.rs 36-57) and the success replies:  *)
(* the status code on the wire.                                            *)
(***************************************************************************)
\* A mapping that answers every domain error with 400.
StatusCodeAll400(res) ==
    CASE res.kind \in {"SymbolNotFound", "NotEnoughData", "BadRequest"} -> 400
      [] OTHER -> 200

StatusCode(res) ==
    CASE res.kind = "SymbolNotFound" -> 404
      [] res.kind = "NotEnoughData" -> 400
      [] res.kind = "BadRequest" -> 400
      [] OTHER -> 200

\* #[error(..)] of NotEnoughData: what self.to_string() gives.
NotEnoughDataText == "Not enough data points for the given window size"

\* into_response of an AppError: (status, Json({ "error": error_message })).
IntoResponse(res) ==
    [status |-> StatusCode(res),
     body   |-> [error |-> IF res.kind = "NotEnoughData"
                           THEN NotEnoughDataText
                           ELSE res.msg]]

(***************************************************************************)
(* The call returns: its guards are dropped and the caller has the result. *)
(***************************************************************************)
RECURSIVE BagOfSeq(_)
BagOfSeq(seq) ==
    IF seq = <<>> THEN EmptyBag
    ELSE BagOfSeq(Tail(seq)) (+) SetToBag({Head(seq)})

Return(p) ==
    /\ pc[p] = "done"
    /\ lock' = Unlock(p)
    /\ pc' = [pc EXCEPT ![p] = "idle"]
    /\ req' = [req EXCEPT ![p] = IdleReq]
    /\ IF Adding(p) /\ req[p].res.kind = "Ok"
       THEN /\ posted' = [posted EXCEPT ![req[p].symbol] =
                              @ (+) BagOfSeq(req[p].values)]
            /\ acked' = [acked EXCEPT ![req[p].symbol] = Log(req[p].symbol)]
            /\ succeeded' = [succeeded EXCEPT ![req[p].symbol] = TRUE]
       ELSE UNCHANGED <<posted, acked, succeeded>>
    /\ UNCHANGED <<symbols, dropped>>

StoreNext(p) ==
    \/ \E s \in Symbols, b \in StoreBatches : CallAddBatch(p, s, b)
    \/ AddBatchContainsKey(p)
    \/ AddBatchLen(p)
    \/ AddBatchEntry(p)
    \/ AddBatchLoop(p)
    \/ \E s \in Symbols, w \in Windows : CallGetStats(p, s, w)
    \/ GetStatsGet(p)
    \/ GetStatsCompute(p)
    \/ Return(p)

HandlerNext(p) ==
    \/ \E s \in Symbols, b \in Batches : CallAddBatchHandler(p, s, b)
    \/ AddBatchHandlerEntry(p)
    \/ AddBatchHandlerLoop(p)
    \/ \E s \in Symbols, e \in MixedExponents : CallGetStatsHandler(p, s, e)

Next == \E p \in Procs : StoreNext(p) \/ HandlerNext(p)

Spec == Init /\ [][Next]_vars

\* The store driven through its own methods only.
NextStore == \E p \in Procs : StoreNext(p)

SpecStore == Init /\ [][NextStore]_vars

\* The service as app_router routes it: every request goes through
\* add_batch_handler or get_stats_handler.
ServiceNext(p) ==
    \/ \E s \in Symbols, b \in Batches : CallAddBatchHandler(p, s, b)
    \/ AddBatchHandlerEntry(p)
    \/ AddBatchHandlerLoop(p)
    \/ \E s \in Symbols, e \in Exponents : CallGetStatsHandler(p, s, e)
    \/ GetStatsGet(p)
    \/ GetStatsCompute(p)
    \/ Return(p)

NextService == \E p \in Procs : ServiceNext(p)

SpecService == Init /\ [][NextService]_vars

TypeOK ==
    /\ \A p \in Procs : pc[p] \in {"idle", "contains_key", "len", "entry", "loop",
                                   "get", "compute", "done", "panicked"}
    /\ \A sh \in Shards : lock[sh].writer \in Procs \cup {0}
(***************************************************************************)
(* The naive aggregation the results are compared with: computed from the  *)
(* sample log alone, by sums over the window.                              *)
(***************************************************************************)
LastN(log, w) == SubSeq(log, Len(log) - w + 1, Len(log))

RECURSIVE NaiveSum(_)
NaiveSum(seq) == IF seq = <<>> THEN FInt(0) ELSE FAdd(Head(seq), NaiveSum(Tail(seq)))

NaiveMean(seq) == FDiv(NaiveSum(seq), FInt(Len(seq)))

NaiveMin(seq) ==
    CHOOSE m \in {seq[k] : k \in DOMAIN seq} : \A k \in DOMAIN seq : FLe(m, seq[k])

NaiveMax(seq) ==
    CHOOSE m \in {seq[k] : k \in DOMAIN seq} : \A k \in DOMAIN seq : FLe(seq[k], m)

SqDev(seq, mean) ==
    [k \in DOMAIN seq |-> FMul(FSub(seq[k], mean), FSub(seq[k], mean))]

NaiveVar(seq) == FDiv(NaiveSum(SqDev(seq, NaiveMean(seq))), FInt(Len(seq)))

MatchesNaive(res, seq) ==
    /\ res.kind = "Stats"
    /\ res.min = NaiveMin(seq)
    /\ res.max = NaiveMax(seq)
    /\ res.avg = NaiveMean(seq)
    /\ res.var = NaiveVar(seq)

StatsOp(p) == req[p].op \in {"get_stats", "get_stats_handler"}

\* get_stats has found the symbol and computed its result, and still holds
\* the Ref it computed it under.
Reading(p) ==
    /\ StatsOp(p)
    /\ pc[p] = "done"
    /\ p \in lock[ShardOf[req[p].symbol]].readers

\* An add on symbol s that holds the entry and has not returned.
MidBatch(q, s) ==
    /\ Adding(q)
    /\ req[q].symbol = s
    /\ pc[q] = "loop"

InternalNodesOK(st) ==
    \A n \in 1 .. (st.capacity - 1) :
        st.tree[n] = NodeAdd(st.tree[2 * n], st.tree[2 * n + 1])

LeavesOK(data) ==
    \A k \in 1 .. Len(data.values) :
        /\ k - 1 + data.tree.capacity \in DOMAIN data.tree.tree
        /\ data.tree.tree[k - 1 + data.tree.capacity] = NodeLeaf(data.values[k])

TreeMatchesLog(data) == LeavesOK(data) /\ InternalNodesOK(data.tree)

\* C1: for every window w >= 1 and every log of N >= w samples, get_stats
\* returns min, max, avg and var equal to the minimum, maximum, arithmetic
\* mean and population variance of the last w samples of the log.
C1_StatsMatchNaive ==
    \A p \in Procs :
        (Reading(p) /\ req[p].window_size >= 1
                    /\ Len(Log(req[p].symbol)) >= req[p].window_size)
        => MatchesNaive(req[p].res, LastN(Log(req[p].symbol), req[p].window_size))

C1_Witness ==
    \E p \in Procs :
        /\ Reading(p)
        /\ req[p].window_size = 2
        /\ Len(Log(req[p].symbol)) = 3
        /\ req[p].res.kind = "Stats"
        /\ req[p].res.var # FInt(0)

\* C2: a get_stats concurrent with an add on the same symbol computes its
\* result from a state in which no batch is partly applied: while it holds
\* its result no add on that symbol is inside its loop, the tree agrees with
\* the log, and the result is the one the whole log gives.
C2_BatchAtomic ==
    \A p \in Procs :
        Reading(p) =>
            LET s == req[p].symbol
                n == Len(Log(s))
                w == IF req[p].window_size < n THEN req[p].window_size ELSE n
            IN /\ \A q \in Procs : ~MidBatch(q, s)
               /\ TreeMatchesLog(symbols[s])
               /\ n >= 1 => /\ MatchesNaive(req[p].res, LastN(Log(s), w))
                            /\ req[p].res.count = w

C2_Witness ==
    \E p, q \in Procs :
        /\ Reading(p)
        /\ req[p].res.kind = "Stats"
        /\ Adding(q)
        /\ req[q].symbol = req[p].symbol
        /\ pc[q] = "entry"
        /\ Len(req[q].values) = 2

\* An add that has finished with success and is about to return.
Ingested(p) == Adding(p) /\ pc[p] = "done" /\ req[p].res.kind = "Ok"

\* C3: after any successful ingest the leaf of every index i < length(log)
\* is the singleton node of log[i] and every internal node p >= 1 is the
\* merge of its children 2p and 2p+1.
C3_TreeInvariant ==
    \A p \in Procs : Ingested(p) => TreeMatchesLog(symbols[req[p].symbol])

C3_Witness ==
    \E p \in Procs :
        /\ Ingested(p)
        /\ Len(req[p].values) = 1
        /\ Len(Log(req[p].symbol)) = 3
        /\ symbols[req[p].symbol].tree.capacity = 4
        /\ symbols[req[p].symbol].tree.tree[1].count = 3

IsPrefix(a, b) == Len(a) <= Len(b) /\ SubSeq(b, 1, Len(a)) = a

\* The window get_stats aggregates: the last min(window_size, N) samples.
EffectiveWindow(p) ==
    LET log == Log(req[p].symbol)
    IN LastN(log, IF req[p].window_size < Len(log) THEN req[p].window_size
                  ELSE Len(log))

\* No add on s has appended without having returned.
Quiescent(s) ==
    \A q \in Procs :
        ~(/\ Adding(q)
          /\ req[q].symbol = s
          /\ pc[q] = "loop" \/ (pc[q] = "done" /\ req[q].res.kind = "Ok"))

\* C4 as stated: a get_stats that starts after adds have returned success is
\* computed over a log that contains all the values of those batches.
C4_SeesEveryPostedValue ==
    \A p \in Procs :
        Reading(p) => req[p].seen \sqsubseteq BagOfSeq(Log(req[p].symbol))

\* C4 as amended: the log a get_stats is computed over extends the log as it
\* stood when an add last returned success, and contains every value of the
\* batches that had returned when it started unless add_batch_handler found
\* the log at MAX_CAPACITY and dropped the rest of a batch.
C4_Linearizable ==
    \A p \in Procs :
        Reading(p) =>
            LET s == req[p].symbol
            IN /\ IsPrefix(acked[s], Log(s))
               /\ Len(Log(s)) >= 1 => MatchesNaive(req[p].res, EffectiveWindow(p))
               /\ ~dropped[s] => req[p].seen \sqsubseteq BagOfSeq(Log(s))

C4_Witness ==
    \E p \in Procs :
        /\ Reading(p)
        /\ req[p].res.kind = "Stats"
        /\ BagCardinality(req[p].seen) >= 2
        /\ ~dropped[req[p].symbol]
        /\ req[p].seen = BagOfSeq(Log(req[p].symbol))

\* C5: the store never holds more than MAX_SYMBOLS distinct symbols.
C5_SymbolCap == Cardinality(Keys) <= MAX_SYMBOLS

\* C6: an add called for an absent symbol while the store holds MAX_SYMBOLS
\* symbols is rejected with BadRequest: it never gets to the entry, and the
\* symbol it names is not created by it.
C6_FullStoreRejects ==
    \A p \in Procs :
        (Adding(p) /\ req[p].full) =>
            \/ pc[p] \in {"contains_key", "len"}
            \/ pc[p] = "done" /\ req[p].res.kind = "BadRequest"

\* C7: with a window larger than the N >= 1 samples stored, get_stats
\* succeeds and returns the stats of all N samples.
C7_WindowLargerThanData ==
    \A p \in Procs :
        (Reading(p) /\ Len(Log(req[p].symbol)) >= 1
                    /\ req[p].window_size > Len(Log(req[p].symbol)))
        => /\ MatchesNaive(req[p].res, Log(req[p].symbol))
           /\ req[p].res.count = Len(Log(req[p].symbol))

C7_Witness ==
    \E p \in Procs :
        /\ Reading(p)
        /\ req[p].window_size = 10
        /\ Len(Log(req[p].symbol)) = 3
        /\ req[p].res.kind = "Stats"
        /\ req[p].res.count = 3

\* C8: a successful get_stats returns as last the newest sample of the log
\* whose window gave its min, max, avg and var.
C8_LastIsNewest ==
    \A p \in Procs :
        (Reading(p) /\ req[p].res.kind = "Stats") =>
            LET log == Log(req[p].symbol)
            IN /\ Len(log) >= 1
               /\ req[p].res.last = log[Len(log)]
               /\ MatchesNaive(req[p].res, EffectiveWindow(p))

C8_Witness ==
    \E p \in Procs :
        LET log == Log(req[p].symbol)
        IN /\ Reading(p)
           /\ req[p].res.kind = "Stats"
           /\ Len(log) >= 2
           /\ log[1] # log[Len(log)]
           /\ req[p].res.last = log[Len(log)]

\* C9 as stated: once the adds on a symbol have returned, its log holds
\* exactly the values of the batches that returned success.
C9_LogIsAllPosted ==
    \A s \in Symbols : Quiescent(s) => BagOfSeq(Log(s)) = posted[s]

\* C9 as amended: once the adds on a symbol have returned, its log holds only
\* values of the batches that returned success, each at most as often as it
\* was posted, and exactly all of them unless add_batch_handler found the log
\* at MAX_CAPACITY and dropped the rest of a batch.
C9_NoLostSample ==
    \A s \in Symbols :
        Quiescent(s) =>
            /\ BagOfSeq(Log(s)) \sqsubseteq posted[s]
            /\ ~dropped[s] => BagOfSeq(Log(s)) = posted[s]

C9_Witness ==
    \E s \in Keys :
        /\ Quiescent(s)
        /\ ~dropped[s]
        /\ Len(Log(s)) = 3
        /\ BagCardinality(posted[s]) = 3
        /\ \E q \in Procs : Adding(q) /\ req[q].symbol = s /\ pc[q] = "entry"

\* C10: with adds and get_stats running concurrently on a symbol, no result
\* is aggregated over more samples than the log holds, nothing panics, and
\* every operation that has finished leaves the tree of its symbol with
\* every internal node the merge of its children.
C10_ConcurrentSafety ==
    /\ \A p \in Procs : pc[p] # "panicked"
    /\ \A s \in Keys : ~symbols[s].tree.panicked
    /\ \A p \in Procs :
           (pc[p] = "done" /\ req[p].symbol \in Keys) =>
               InternalNodesOK(symbols[req[p].symbol].tree)
    /\ \A p \in Procs :
           (Reading(p) /\ req[p].res.kind = "Stats") =>
               /\ req[p].res.count >= 1
               /\ req[p].res.count <= Len(Log(req[p].symbol))

C10_Witness ==
    \E p, q \in Procs :
        /\ Reading(p)
        /\ req[p].res.kind = "Stats"
        /\ req[p].res.count = 2
        /\ symbols[req[p].symbol].tree.capacity = 4
        /\ Adding(q)
        /\ req[q].symbol = req[p].symbol
        /\ pc[q] \in {"contains_key", "entry"}

\* An add that holds the entry of its symbol: inside its loop, or finished
\* with success and about to return.
HoldsEntry(p) == Adding(p) /\ (pc[p] = "loop" \/ Ingested(p))

\* C11 as stated: after a successful add that found the log at length N,
\* log[N + j] = values[j] for every value of the batch.
C11_WholeBatchInOrder ==
    \A p \in Procs :
        Ingested(p) =>
            \A k \in 1 .. Len(req[p].values) :
                /\ req[p].base + k <= Len(Log(req[p].symbol))
                /\ Log(req[p].symbol)[req[p].base + k] = req[p].values[k]

\* C11 as amended: the values an add has appended so far are the first
\* values of its batch, in order, at the consecutive indices that follow the
\* length N the log had when the add got the entry, and nothing else has
\* been appended since; a finished add has appended its whole batch unless
\* add_batch_handler found the log at MAX_CAPACITY.
C11_BatchInOrder ==
    \A p \in Procs :
        HoldsEntry(p) =>
            LET s == req[p].symbol
                n == req[p].j - 1
            IN /\ Len(Log(s)) = req[p].base + n
               /\ \A k \in 1 .. n : Log(s)[req[p].base + k] = req[p].values[k]
               /\ Ingested(p) => (n = Len(req[p].values) \/ dropped[s])

C11_Witness ==
    \E p, q \in Procs :
        /\ Ingested(p)
        /\ req[p].base = 1
        /\ req[p].j = 3
        /\ Len(Log(req[p].symbol)) = 3
        /\ Adding(q)
        /\ req[q].symbol = req[p].symbol
        /\ pc[q] = "entry"

HasNegative(values) == \E k \in DOMAIN values : values[k].n < 0

HandlerAdd(p) == req[p].op = "add_batch_handler"

HoldsNoLock(p) ==
    \A sh \in Shards : lock[sh].writer # p /\ p \notin lock[sh].readers

NegativeRejected(p) ==
    /\ pc[p] = "done"
    /\ req[p].res.kind = "BadRequest"
    /\ req[p].res.msg = "Negative trading prices are not allowed"
    /\ StatusCode(req[p].res) = 400
    /\ HoldsNoLock(p)

\* C12: an add whose values contain a negative one is rejected with
\* BadRequest (400, 'Negative trading prices are not allowed') before it
\* touches the store: every step it takes leaves the store as it was, so
\* none of its values is appended and no symbol is created; an add whose
\* values are all >= 0 is not rejected.
C12_NegativeRejectedWhole ==
    /\ [](\A p \in Procs :
            /\ (HandlerAdd(p) /\ HasNegative(req[p].values)) => NegativeRejected(p)
            /\ (HandlerAdd(p) /\ Len(req[p].values) >= 1
                              /\ ~HasNegative(req[p].values))
               => req[p].res.kind \in {"None", "Ok"})
    /\ [][\A p \in Procs :
            (/\ pc'[p] # pc[p]
             /\ \/ HandlerAdd(p) /\ HasNegative(req[p].values)
                \/ req'[p].op = "add_batch_handler" /\ HasNegative(req'[p].values))
            => symbols' = symbols]_vars

C12_Witness ==
    \E p \in Procs :
        /\ HandlerAdd(p)
        /\ req[p].values = <<FInt(3), FInt(-1)>>
        /\ NegativeRejected(p)
        /\ req[p].symbol \notin Keys
        /\ Keys # {}
        /\ \E q \in Procs : HandlerAdd(q) /\ req[q].values = <<FInt(0)>>
                                          /\ req[q].res.kind = "Ok"

EmptyRejected(p) ==
    /\ pc[p] = "done"
    /\ req[p].res.kind = "BadRequest"
    /\ req[p].res.msg = "Cannot add an empty batch of values"
    /\ StatusCode(req[p].res) = 400
    /\ HoldsNoLock(p)

C14_OversizedRejected ==
    \A p \in Procs :
        (HandlerAdd(p) /\ Len(req[p].values) > MAX_BATCH) =>
            /\ pc[p] = "done"
            /\ req[p].res.kind = "BadRequest"
            /\ StatusCode(req[p].res) = 400

\* C15: a get_stats on a symbol on which no add has returned success fails
\* with SymbolNotFound (404), whatever the window: it finds no entry, and it
\* never sees the entry of an add that has not returned yet.
C15_UnknownSymbolNotFound ==
    \A p \in Procs :
        (req[p].op = "get_stats" /\ pc[p] = "done"
                                 /\ ~succeeded[req[p].symbol])
        => /\ req[p].res = Err("SymbolNotFound", req[p].symbol)
           /\ StatusCode(req[p].res) = 404
           /\ HoldsNoLock(p)

C15_Witness ==
    \E p, q \in Procs :
        /\ req[p].op = "get_stats"
        /\ pc[p] = "done"
        /\ req[p].window_size = 2
        /\ ~succeeded[req[p].symbol]
        /\ req[p].res.kind = "SymbolNotFound"
        /\ Adding(q)
        /\ req[q].symbol = req[p].symbol
        /\ pc[q] = "loop"

HandlerStats(p) == req[p].op = "get_stats_handler"

\* 10^e for the exponents the endpoint accepts, written out.
TenTo == <<10, 100, 1000, 10000, 100000, 1000000, 10000000, 100000000>>

\* C16: the stats endpoint queries the store with window 10^exponent for
\* the exponents 1..8 and for no other: an exponent outside [1, 8] is
\* answered BadRequest (400) at once, without a lookup in the store.
C16_ExponentRange ==
    \A p \in Procs :
        HandlerStats(p) =>
            IF req[p].exponent \in 1 .. 8
            THEN /\ req[p].window_size = TenTo[req[p].exponent]
                 /\ req[p].res.kind # "BadRequest"
            ELSE /\ pc[p] = "done"
                 /\ req[p].res =
                        Err("BadRequest", "exponent must be an integer between 1 and 8")
                 /\ StatusCode(req[p].res) = 400
                 /\ HoldsNoLock(p)

C16_Witness ==
    \E p, q \in Procs :
        /\ HandlerStats(p)
        /\ req[p].exponent = 8
        /\ req[p].window_size = 100000000
        /\ Reading(p)
        /\ req[p].res.kind = "Stats"
        /\ StatusCode(req[p].res) = 200
        /\ HandlerStats(q)
        /\ req[q].exponent = 9
        /\ req[q].symbol = req[p].symbol
        /\ req[q].res.kind = "BadRequest"

\* The number of samples of a batch that fit in a log of length base.
Fits(base, values) ==
    IF base + Len(values) <= MAX_CAPACITY
    THEN Len(values)
    ELSE IF base >= MAX_CAPACITY THEN 0 ELSE MAX_CAPACITY - base

SplitValues == {0, 1, 4}

Flats == UNION {[1 .. n -> SplitValues] : n \in 1 .. MaxSamples}

EntryPoints == {"add_batch", "add_batch_handler"}

\* for value in values { values.push(*value); tree.update(..) }
RECURSIVE PushAll(_, _)
PushAll(data, values) ==
    IF values = <<>> THEN data
    ELSE PushAll(PushAndUpdate(data, Head(values)), Tail(values))

\* The handler's loop: break when the log is full.
RECURSIVE PushAllCapped(_, _)
PushAllCapped(data, values) ==
    IF values = <<>> \/ AtCapacity(data.values) THEN data
    ELSE PushAllCapped(PushAndUpdate(data, Head(values)), Tail(values))

\* The client picks the sequence and the entry point.
SplitStart(flat, op) ==
    /\ pc[1] = "idle"
    /\ Keys = {}
    /\ req' = [req EXCEPT ![1] = [IdleReq EXCEPT !.op = op, !.symbol = "A",
                                     !.values = ToF64(flat), !.j = 1]]
    /\ pc' = [pc EXCEPT ![1] = "split"]
    /\ UNCHANGED <<symbols, lock, posted, acked, dropped, succeeded>>

\* One whole request with the next k values, nothing running beside it.
SplitStep(k) ==
    /\ pc[1] = "split"
    /\ req[1].j + k - 1 <= Len(req[1].values)
    /\ LET s == req[1].symbol
           piece == SubSeq(req[1].values, req[1].j, req[1].j + k - 1)
       IN IF req[1].op = "add_batch"
          THEN IF s \notin Keys /\ Cardinality(Keys) >= MAX_SYMBOLS
               THEN symbols' = symbols
               ELSE symbols' = [OrInsertWith(s, STARTING_CAPACITY)
                                    EXCEPT ![s] = PushAll(@, piece)]
          ELSE IF IsEmpty(piece) \/ AnyNegative(piece)
               THEN symbols' = symbols
               ELSE symbols' = [OrInsertWith(s, MAX_CAPACITY)
                                    EXCEPT ![s] = PushAllCapped(@, piece)]
    /\ req' = [req EXCEPT ![1].j = @ + k, ![1].i = @ + 1]
    /\ UNCHANGED <<lock, pc, posted, acked, dropped, succeeded>>

SplitWindows == 1 .. MaxSamples + 1

\* The client asks for the statistics of the symbol, between two batches or
\* after the last one: get_stats with nothing running beside it.
SplitStats(w) ==
    /\ pc[1] = "split"
    /\ req' = [req EXCEPT ![1].window_size = w,
                          ![1].res = IF req[1].symbol \in Keys
                                     THEN GetStats(symbols[req[1].symbol], w)
                                     ELSE SymbolNotFound(req[1].symbol)]
    /\ UNCHANGED <<symbols, lock, pc, posted, acked, dropped, succeeded>>

NextSplit ==
    \/ \E flat \in Flats, op \in EntryPoints : SplitStart(flat, op)
    \/ \E k \in 1 .. MaxSamples : SplitStep(k)
    \/ \E w \in SplitWindows : SplitStats(w)

SpecSplit == Init /\ [][NextSplit]_vars

\* The same values as one batch into a fresh symbol.
WholeData(op, flat) ==
    IF op = "add_batch"
    THEN PushAll([values |-> <<>>, tree |-> SegmentTreeNew(STARTING_CAPACITY)], flat)
    ELSE PushAllCapped([values |-> <<>>, tree |-> SegmentTreeNew(MAX_CAPACITY)], flat)

SplitFinished == pc[1] = "split" /\ req[1].j = Len(req[1].values) + 1

\* C18: a flat sequence handed in as consecutive smaller batches leaves the
\* same sample log, and the same get_stats result for every window, as the
\* same sequence handed in as one batch.
C18_SplitSameAsWhole ==
    SplitFinished =>
        LET whole == WholeData(req[1].op, req[1].values)
        IN /\ "A" \in Keys
           /\ Log("A") = whole.values
           /\ \A w \in SplitWindows :
                  GetStats(symbols["A"], w) = GetStats(whole, w)

C18_Witness ==
    /\ SplitFinished
    /\ req[1].op = "add_batch"
    /\ req[1].i = 3
    /\ Len(Log("A")) = 3
    /\ GetStats(symbols["A"], 3).kind = "Stats"
    /\ GetStats(symbols["A"], 3).var.n # 0
    /\ GetStats(symbols["A"], 2).avg # GetStats(symbols["A"], 3).avg

\* A get_stats of the sequential client that returned statistics.
SplitAnswered == pc[1] = "split" /\ req[1].res.kind = "Stats"

\* C19: every successful get_stats returns a variance >= 0, whatever
\* non-negative values were ingested and whatever the window.
C19_VarianceNonNegative ==
    SplitAnswered => FLe(FInt(0), req[1].res.var)

C19_Witness ==
    /\ SplitAnswered
    /\ Len(Log("A")) = 3
    /\ req[1].window_size = 2
    /\ req[1].res.count = 2
    /\ FLt(FInt(0), req[1].res.var)

\* A node that aggregates at least one sample is ordered; any other node is
\* the identity of the merge.
NodeOrdered(node) ==
    IF node.count = 0
    THEN node = NodeDefault
    ELSE /\ node.count >= 1
         /\ FLe(node.min, node.max)
         /\ FLe(node.min, node.mean)
         /\ FLe(node.mean, node.max)

\* C20: every successful get_stats returns min <= avg <= max, and every
\* non-empty node of every tree has count >= 1, min <= max and
\* min <= mean <= max.
C20_MinAvgMaxOrdered ==
    /\ SplitAnswered =>
           /\ req[1].res.count >= 1
           /\ FLe(req[1].res.min, req[1].res.avg)
           /\ FLe(req[1].res.avg, req[1].res.max)
    /\ \A s \in Keys :
           \A i \in DOMAIN symbols[s].tree.tree :
               NodeOrdered(symbols[s].tree.tree[i])

C20_Witness ==
    /\ SplitAnswered
    /\ req[1].res.count = 3
    /\ FLt(req[1].res.min, req[1].res.avg)
    /\ FLt(req[1].res.avg, req[1].res.max)
    /\ \E i \in DOMAIN symbols["A"].tree.tree :
           /\ symbols["A"].tree.tree[i].count = 2
           /\ FLt(symbols["A"].tree.tree[i].min, symbols["A"].tree.tree[i].mean)

\* Process p takes this step.
Moves(p) == pc'[p] # pc[p] \/ req'[p] # req[p]

\* The symbol of the add that process p is running, or starts in this step.
AddSymbol(p) == IF Adding(p) THEN req[p].symbol ELSE req'[p].symbol

\* C21: a step of an add on one symbol, successful or rejected, leaves every
\* other symbol in the store with the sample log and the tree it had, and so
\* with the same get_stats result for every window.
C21_SymbolsIndependent ==
    [][\A p \in Procs :
          (Moves(p) /\ (Adding(p) \/ req'[p].op \in {"add_batch", "add_batch_handler"}))
          => \A b \in Keys \ {AddSymbol(p)} :
                 /\ b \in DOMAIN symbols'
                 /\ symbols'[b] = symbols[b]
                 /\ \A w \in Windows :
                        GetStats(symbols'[b], w) = GetStats(symbols[b], w)]_vars

C21_Witness ==
    \E p, q \in Procs :
        /\ Adding(p)
        /\ pc[p] = "loop"
        /\ req[p].j = 2
        /\ req[p].symbol = "A"
        /\ Len(Log("A")) >= 1
        /\ Len(Log("B")) >= 1
        /\ Reading(q)
        /\ req[q].symbol = "B"
        /\ req[q].res.kind = "Stats"

\* C22: get_stats is read-only: no step of a get_stats, whether it ends in
\* statistics, SymbolNotFound, NotEnoughData or the rejection of the
\* exponent, changes the store; an unknown symbol is not created and the
\* number of symbols stays what it was.
C22_GetStatsReadOnly ==
    [][\A p \in Procs :
          (Moves(p) /\ (StatsOp(p) \/ req'[p].op \in {"get_stats", "get_stats_handler"}))
          => /\ symbols' = symbols
             /\ Cardinality(DOMAIN symbols') = Cardinality(Keys)]_vars

C22_Witness ==
    \E p, q \in Procs :
        /\ req[p].op = "get_stats"
        /\ pc[p] = "done"
        /\ req[p].res.kind = "SymbolNotFound"
        /\ req[p].symbol \notin Keys
        /\ req[q].op = "get_stats"
        /\ pc[q] = "done"
        /\ req[q].res.kind = "NotEnoughData"
        /\ req[q].symbol \in Keys

\* C23: the store is append-only: in every step a symbol that is present
\* stays present and its sample log is extended at the end only, so its
\* length never decreases and the value at an assigned index never changes.
C23_AppendOnly ==
    [][\A s \in Keys :
          /\ s \in DOMAIN symbols'
          /\ Len(symbols'[s].values) >= Len(symbols[s].values)
          /\ \A i \in 1 .. Len(symbols[s].values) :
                 symbols'[s].values[i] = symbols[s].values[i]]_vars

C23_Witness ==
    \E p \in Procs :
        /\ Adding(p)
        /\ pc[p] = "loop"
        /\ req[p].base >= 1
        /\ req[p].j = 2
        /\ Len(Log(req[p].symbol)) = req[p].base + 1
        /\ succeeded[req[p].symbol]
        /\ Cardinality(Keys) = 2

DomainErrors == {"SymbolNotFound", "NotEnoughData", "BadRequest"}

\* The request of process p has ended in something other than success.
Failed(p) == pc[p] \in {"done", "panicked"} /\ req[p].res.kind \notin {"Ok", "Stats"}

\* C24: a failed operation surfaces one of the three domain error kinds,
\* and its response is a function of the kind: SymbolNotFound is 404,
\* NotEnoughData and BadRequest are 400, never a 2xx or a 5xx, and the body
\* is a JSON object with the single field error.
C24_ErrorTaxonomy ==
    \A p \in Procs :
        Failed(p) =>
            LET kind == req[p].res.kind
                response == IntoResponse(req[p].res)
            IN /\ pc[p] = "done"
               /\ kind \in DomainErrors
               /\ response.status = (IF kind = "SymbolNotFound" THEN 404 ELSE 400)
               /\ response.status \notin 200 .. 299 \cup 500 .. 599
               /\ DOMAIN response.body = {"error"}
               /\ response.body.error # ""

C24_Witness ==
    \E p, q \in Procs :
        /\ Failed(p)
        /\ req[p].res.kind = "SymbolNotFound"
        /\ IntoResponse(req[p].res) = [status |-> 404, body |-> [error |-> req[p].symbol]]
        /\ Failed(q)
        /\ req[q].res.kind = "NotEnoughData"
        /\ IntoResponse(req[q].res).status = 400
        /\ \E s \in Symbols : dropped[s] \/ succeeded[s]

(***************************************************************************)
(* The segment tree on its own, as the unit tests of segment_tree.rs drive *)
(* it: one tree in symbols["A"] beside the Vec of values the caller keeps, *)
(* and the node the last query returned in req[1].res (with the range in   *)
(* req[1].i and req[1].j).                                                 *)
(***************************************************************************)
\* The largest number of values the caller puts in the Vec.
MaxLeaves == 4

\* const OFFSET: f64 = 1_000_000_000.0, scaled down: the model's integers
\* are 32 bits wide and the exact mean of three such values has the
\* numerator 3 * OFFSET + 1.
OFFSET == 1000000

\* The values of one run: small ones, or ones that share the large offset.
TreeValues(offset) ==
    IF offset = 0 THEN {0, 1, 4} ELSE {offset - 1, offset + 1}

TreeOf == symbols["A"].tree

TreeLog == symbols["A"].values

TreeIdle(op) == [IdleReq EXCEPT !.op = op, !.symbol = "A", !.base = req[1].base]

\* A run builds a tree by updates and ends with one query, as each unit
\* test does; query takes &self, so a second query would see the same tree.
TreeBuilding == pc[1] = "tree" /\ req[1].op # "query"

\* SegmentTree::new(capacity) and let mut values = Vec::new().
TreeNew(capacity, offset) ==
    /\ pc[1] = "idle"
    /\ Keys = {}
    /\ symbols' = [s \in {"A"} |->
                      [values |-> <<>>, tree |-> SegmentTreeNew(capacity)]]
    /\ pc' = [pc EXCEPT ![1] = "tree"]
    /\ req' = [req EXCEPT ![1] = [IdleReq EXCEPT !.op = "new", !.symbol = "A",
                                                 !.base = offset]]
    /\ UNCHANGED <<lock, posted, acked, dropped, succeeded>>

\* values.push(v); tree.update(i, v, &values) with i the new index.
TreeAppend(v) ==
    /\ TreeBuilding
    /\ Len(TreeLog) < MaxLeaves
    /\ v \in TreeValues(req[1].base)
    /\ symbols' = [symbols EXCEPT !["A"] = PushAndUpdate(@, FInt(v))]
    /\ req' = [req EXCEPT ![1] = TreeIdle("append")]
    /\ UNCHANGED <<lock, pc, posted, acked, dropped, succeeded>>

\* values[i] = v; tree.update(i, v, &values) on a leaf that is populated.
TreeOverwrite(i, v) ==
    /\ TreeBuilding
    /\ i < Len(TreeLog)
    /\ v \in TreeValues(req[1].base)
    /\ LET values == [TreeLog EXCEPT ![i + 1] = FInt(v)]
       IN symbols' = [symbols EXCEPT !["A"] =
                         [values |-> values,
                          tree |-> Update(TreeOf, i, FInt(v), values)]]
    /\ req' = [req EXCEPT ![1] = [TreeIdle("overwrite") EXCEPT !.i = i]]
    /\ UNCHANGED <<lock, pc, posted, acked, dropped, succeeded>>

\* Several pushes and one tree.update(i, v, &values) for the last of them,
\* with i beyond the capacity: the resize is what inserts the others.
TreeJump(vs) ==
    /\ TreeBuilding
    /\ Len(vs) >= 2
    /\ Len(TreeLog) + Len(vs) <= MaxLeaves
    /\ Len(TreeLog) + Len(vs) - 1 >= TreeOf.capacity
    /\ \A k \in DOMAIN vs : vs[k] \in TreeValues(req[1].base)
    /\ LET values == TreeLog \o ToF64(vs)
           i == Len(values) - 1
       IN symbols' = [symbols EXCEPT !["A"] =
                         [values |-> values,
                          tree |-> Update(TreeOf, i, values[i + 1], values)]]
    /\ req' = [req EXCEPT ![1] = [TreeIdle("jump") EXCEPT !.i = TreeOf.capacity]]
    /\ UNCHANGED <<lock, pc, posted, acked, dropped, succeeded>>

\* let node = tree.query(left, right): the last step of a run.
TreeQuery(left, right) ==
    /\ TreeBuilding
    /\ left > right \/ right < TreeOf.capacity
    /\ req' = [req EXCEPT ![1] = [TreeIdle("query") EXCEPT
                                     !.i = left, !.j = right,
                                     !.res = Query(TreeOf, left, right)]]
    /\ UNCHANGED <<symbols, lock, pc, posted, acked, dropped, succeeded>>

\* The loop of add_batch on the caller's Vec and tree: for each value of
\* the batch, push and update.  req[1].i and req[1].j keep the capacity and
\* the length from before the batch.
TreeBatch(vs) ==
    /\ TreeBuilding
    /\ Len(vs) >= 2
    /\ Len(TreeLog) + Len(vs) <= MaxLeaves
    /\ \A k \in DOMAIN vs : vs[k] \in TreeValues(req[1].base)
    /\ symbols' = [symbols EXCEPT !["A"] = PushAll(@, ToF64(vs))]
    /\ req' = [req EXCEPT ![1] = [TreeIdle("batch") EXCEPT
                                     !.i = TreeOf.capacity,
                                     !.j = Len(TreeLog)]]
    /\ UNCHANGED <<lock, pc, posted, acked, dropped, succeeded>>

\* The sequences of two or three values of a run.
Jumps(offset) == UNION {[1 .. n -> TreeValues(offset)] : n \in 2 .. 3}

\* A tree that started with a capacity of at most MaxLeaves and holds at
\* most MaxLeaves values has a capacity of at most 2 * (MaxLeaves - 1).
LeafIndexes == 0 .. 2 * (MaxLeaves - 1) - 1

NextTree ==
    \/ \E capacity \in 1 .. MaxLeaves, offset \in {0, OFFSET} :
           TreeNew(capacity, offset)
    \/ \E v \in TreeValues(req[1].base) : TreeAppend(v)
    \/ \E i \in 0 .. MaxLeaves - 1, v \in TreeValues(req[1].base) :
           TreeOverwrite(i, v)
    \/ \E vs \in Jumps(req[1].base) : TreeJump(vs)
    \/ \E vs \in Jumps(req[1].base) : TreeBatch(vs)
    \/ \E left, right \in LeafIndexes : TreeQuery(left, right)

SpecTree == Init /\ [][NextTree]_vars



\* The run has ended with a query whose result is in req[1].res.
Queried == pc[1] = "tree" /\ req[1].op = "query"

(***************************************************************************)
(* Where f64 does not round.  The model computes in exact rationals; an    *)
(* f64 operation whose exact result is a small multiple of a small power   *)
(* of 1/2 returns that result, so a merge all of whose intermediate        *)
(* results are such numbers gives in f64 the node the model computes.      *)
(***************************************************************************)
Dyadic(x) == x.d \in {1, 2, 4, 8}

\* Every intermediate result of self + rhs, in the order impl Add computes
\* them.
MergeExact(self, rhs) ==
    \/ self.count = 0
    \/ rhs.count = 0
    \/ LET combined_count == self.count + rhs.count
           delta == FSub(rhs.mean, self.mean)
           ratio == F(rhs.count, combined_count)
           step == FMul(delta, ratio)
           new_mean == FAdd(self.mean, step)
           square == FMul(delta, delta)
           weight == F(self.count * rhs.count, combined_count)
           spread == FMul(square, weight)
           both == FAdd(self.m2, rhs.m2)
           new_m2 == FAdd(both, spread)
       IN /\ Dyadic(self.mean) /\ Dyadic(rhs.mean)
          /\ Dyadic(self.m2) /\ Dyadic(rhs.m2)
          /\ Dyadic(delta) /\ Dyadic(ratio) /\ Dyadic(step) /\ Dyadic(new_mean)
          /\ Dyadic(square) /\ Dyadic(weight) /\ Dyadic(spread)
          /\ Dyadic(both) /\ Dyadic(new_m2)

\* Every internal node is the merge of its children and that merge is exact.
TreeExact(st) ==
    \A i \in 1 .. st.capacity - 1 :
        /\ st.tree[i] = NodeAdd(st.tree[2 * i], st.tree[2 * i + 1])
        /\ MergeExact(st.tree[2 * i], st.tree[2 * i + 1])

\* Every merge the loop of query makes is exact.
RECURSIVE QueryExact(_, _, _, _, _)
QueryExact(tree, left, right, res_left, res_right) ==
    IF left <= right
    THEN LET takeL == left % 2 = 1
             takeR == right % 2 = 0
             rl == IF takeL THEN NodeAdd(res_left, tree[left]) ELSE res_left
             l1 == IF takeL THEN left + 1 ELSE left
             rr == IF takeR THEN NodeAdd(tree[right], res_right) ELSE res_right
             r1 == IF takeR THEN right - 1 ELSE right
         IN /\ takeL => MergeExact(res_left, tree[left])
            /\ takeR => MergeExact(tree[right], res_right)
            /\ QueryExact(tree, l1 \div 2, r1 \div 2, rl, rr)
    ELSE MergeExact(res_left, res_right)

OffsetData ==
    <<FInt(OFFSET + 1), FInt(OFFSET - 1), FInt(OFFSET + 1), FInt(OFFSET - 1)>>

\* The four values are in a tree of even capacity (a symbol's tree has
\* capacity 1,000,000 * 2^k or 100,000,000) and the full range was queried.
OffsetQueried ==
    /\ Queried
    /\ TreeLog = OffsetData
    /\ TreeOf.capacity % 2 = 0
    /\ req[1].i = 0
    /\ req[1].j = 3

\* C25: after the four values OFFSET+1, OFFSET-1, OFFSET+1, OFFSET-1 the
\* full window has mean OFFSET and variance 1, and every merge that leads
\* to this result is exact in f64, so the f64 result is exactly 1.0.
C25_OffsetVarianceExact ==
    OffsetQueried =>
        /\ req[1].res.count = 4
        /\ req[1].res.mean = FInt(OFFSET)
        /\ FDiv(req[1].res.m2, FInt(req[1].res.count)) = FInt(1)
        /\ TreeExact(TreeOf)
        /\ QueryExact(TreeOf.tree, TreeOf.capacity, 3 + TreeOf.capacity,
                      NodeDefault, NodeDefault)

C25_Witness ==
    /\ OffsetQueried
    /\ TreeOf.capacity = 4
    /\ req[1].res.m2 = FInt(4)
    /\ req[1].res.min = FInt(OFFSET - 1)

\* The leaves l..r merged one after the other, from the left.
RECURSIVE LeafFold(_, _, _)
LeafFold(st, l, r) ==
    IF l > r THEN NodeDefault
    ELSE NodeAdd(LeafFold(st, l, r - 1), st.tree[st.capacity + r])

\* The values of the populated leaves among l..r.
Populated(log, l, r) ==
    SubSeq(log, l + 1, IF r + 1 < Len(log) THEN r + 1 ELSE Len(log))

\* C26: for every capacity and every 0 <= l <= r < capacity, query(l, r)
\* is the left-to-right fold of the leaves l..r under the merge: its count
\* is the number of populated leaves in the range, and min, max, mean and
\* M2 are those of their values.
C26_QueryIsSerialFold ==
    (Queried /\ req[1].i <= req[1].j) =>
        LET node == req[1].res
            seq == Populated(TreeLog, req[1].i, req[1].j)
        IN /\ node = LeafFold(TreeOf, req[1].i, req[1].j)
           /\ node.count = Len(seq)
           /\ Len(seq) > 0 =>
                  /\ node.min = NaiveMin(seq)
                  /\ node.max = NaiveMax(seq)
                  /\ node.mean = NaiveMean(seq)
                  /\ node.m2 = NaiveSum(SqDev(seq, NaiveMean(seq)))
           /\ Len(seq) = 0 => node = NodeDefault

C26_Witness ==
    /\ Queried
    /\ TreeOf.capacity = 3
    /\ req[1].i = 1
    /\ req[1].j = 2
    /\ Len(TreeLog) = 3
    /\ req[1].res.count = 2
    /\ req[1].res.m2 # FInt(0)
    /\ req[1].res.mean # TreeOf.tree[1].mean

(***************************************************************************)
(* The merge on its own: three nodes a, b, c in req[1].values, each the    *)
(* aggregate of up to MaxCount values, and (a + b) + c in req[1].res once  *)
(* it has been computed.                                                   *)
(***************************************************************************)
MaxCount == 2

MergeValues == {0, 1, 4}

MergeStart ==
    /\ pc[1] = "idle"
    /\ pc' = [pc EXCEPT ![1] = "merge"]
    /\ req' = [req EXCEPT ![1] = [IdleReq EXCEPT !.op = "nodes",
                  !.values = <<NodeDefault, NodeDefault, NodeDefault>>]]
    /\ UNCHANGED <<symbols, lock, posted, acked, dropped, succeeded>>

\* One more value in the k-th node: node + leaf.
MergeGrow(k, v) ==
    /\ pc[1] = "merge"
    /\ req[1].op = "nodes"
    /\ req[1].values[k].count < MaxCount
    /\ req' = [req EXCEPT ![1].values[k] = NodeAdd(@, NodeLeaf(FInt(v)))]
    /\ UNCHANGED <<symbols, lock, pc, posted, acked, dropped, succeeded>>

\* (a + b) + c
MergeApply ==
    /\ pc[1] = "merge"
    /\ req[1].op = "nodes"
    /\ req' = [req EXCEPT ![1].op = "merged",
                          ![1].res = NodeAdd(NodeAdd(req[1].values[1],
                                                     req[1].values[2]),
                                             req[1].values[3])]
    /\ UNCHANGED <<symbols, lock, pc, posted, acked, dropped, succeeded>>

NextMerge ==
    \/ MergeStart
    \/ \E k \in 1 .. 3, v \in MergeValues : MergeGrow(k, v)
    \/ MergeApply

SpecMerge == Init /\ [][NextMerge]_vars

Merged == pc[1] = "merge" /\ req[1].op = "merged"

\* C27: the merge is associative and the empty node is its identity on
\* both sides: (a + b) + c = a + (b + c), identity + a = a and
\* a + identity = a, for every field of the node (in exact arithmetic).
C27_MergeAssociative ==
    Merged =>
        LET a == req[1].values[1]
            b == req[1].values[2]
            c == req[1].values[3]
        IN /\ req[1].res = NodeAdd(a, NodeAdd(b, c))
           /\ \A n \in {a, b, c, req[1].res, NodeDefault} :
                  /\ NodeAdd(NodeDefault, n) = n
                  /\ NodeAdd(n, NodeDefault) = n

C27_Witness ==
    /\ Merged
    /\ req[1].values[1].count = 2
    /\ req[1].values[2].count = 1
    /\ req[1].values[3].count = 2
    /\ req[1].values[1].mean # req[1].values[3].mean
    /\ req[1].values[1].m2 # FInt(0)
    /\ req[1].res.count = 5
    /\ req[1].res.mean.d = 5

\* C28: a query whose range holds no populated leaf returns the identity
\* node (count 0, min +inf, max -inf): when l > r, wherever l and r lie and
\* whatever the tree holds, and when every leaf of l..r was never updated,
\* as in a fresh tree.
C28_EmptyRangeIsIdentity ==
    (Queried /\ (req[1].i > req[1].j \/ req[1].i >= Len(TreeLog))) =>
        /\ req[1].res.count = 0
        /\ req[1].res.min = INFINITY
        /\ req[1].res.max = NEG_INFINITY
        /\ req[1].res.mean = FInt(0)
        /\ req[1].res.m2 = FInt(0)

C28_Witness ==
    /\ Queried
    /\ Len(TreeLog) = 0
    /\ TreeOf.capacity = 4
    /\ req[1].i = 0
    /\ req[1].j = 3
    /\ req[1].res.count = 0
    /\ req[1].res.min = INFINITY

\* The tree of a capacity for a sequence of values, node by node: leaf k
\* holds the k-th value or nothing, an internal node the merge of its two
\* children, and node 0 is never written.
RECURSIVE ExpectedNode(_, _, _)
ExpectedNode(capacity, log, i) ==
    IF i = 0 THEN NodeDefault
    ELSE IF i >= capacity
    THEN IF i - capacity + 1 <= Len(log)
         THEN NodeLeaf(log[i - capacity + 1])
         ELSE NodeDefault
    ELSE NodeAdd(ExpectedNode(capacity, log, 2 * i),
                 ExpectedNode(capacity, log, 2 * i + 1))

ExpectedTree(capacity, log) ==
    [tree |-> [i \in 0 .. 2 * capacity - 1 |-> ExpectedNode(capacity, log, i)],
     capacity |-> capacity,
     panicked |-> FALSE]

\* C29: update(i, v') on a populated leaf gives exactly the tree of the
\* sequence with v' at position i, and update(i, v) with the value the leaf
\* already holds (a second application of the same update) leaves the tree
\* as it is.
C29_UpdateIdempotentOverwrite ==
    /\ []((pc[1] = "tree" /\ req[1].op = "overwrite")
            => TreeOf = ExpectedTree(TreeOf.capacity, TreeLog))
    /\ [][(pc[1] = "tree" /\ req'[1].op = "overwrite"
                          /\ symbols'["A"].values = TreeLog)
            => symbols'["A"].tree = TreeOf]_vars

C29_Witness ==
    /\ pc[1] = "tree"
    /\ req[1].op = "overwrite"
    /\ req[1].i = 1
    /\ TreeOf.capacity = 4
    /\ TreeLog = <<FInt(0), FInt(4), FInt(1)>>
    /\ TreeOf.tree[1].count = 3
    /\ TreeOf.tree[1].max = FInt(4)

Grown(op) == pc[1] = "tree" /\ req[1].op = op

\* C30: an update at an index i at or beyond the capacity C makes the
\* capacity max(2 * C, i + 1) and leaves exactly the tree of that capacity
\* for the whole sequence of values, the new one included; an update below
\* the capacity keeps the capacity.  Every value is in the tree after
\* growth, also when it is a value in the middle of a batch that triggers
\* it.
C30_GrowthRebuilds ==
    /\ []((Grown("append") \/ Grown("jump") \/ Grown("batch"))
            => /\ TreeOf = ExpectedTree(TreeOf.capacity, TreeLog)
               /\ LeavesOK(symbols["A"])
               /\ Query(TreeOf, 0, Len(TreeLog) - 1).count = Len(TreeLog))
    /\ [][(pc[1] = "tree" /\ req'[1].op \in {"append", "jump"})
            => LET i == Len(symbols'["A"].values) - 1
                   C == TreeOf.capacity
               IN /\ IsPrefix(TreeLog, symbols'["A"].values)
                  /\ symbols'["A"].tree.capacity =
                         (IF i < C THEN C
                          ELSE IF 2 * C > i + 1 THEN 2 * C ELSE i + 1)]_vars

C30_Witness ==
    /\ Grown("batch")
    /\ req[1].j >= 1
    /\ req[1].j < req[1].i
    /\ Len(TreeLog) = req[1].i + 1
    /\ TreeOf.capacity = 2 * req[1].i
    /\ TreeOf.tree[1].count = Len(TreeLog)

\* The first check of the specified order that the request of p fails, or
\* "none".
FirstFailing(p) ==
    IF Len(req[p].values) = 0 THEN "empty"
    ELSE IF HasNegative(req[p].values) THEN "negative"
    ELSE IF Len(req[p].values) > MAX_BATCH THEN "size"
    ELSE IF req[p].full THEN "cap"
    ELSE "none"

\* C31: an add is checked for an empty batch, a negative value, the batch
\* size and the symbol cap, in this order; it is rejected with the error of
\* the first check it fails, before the entry of the symbol is looked up or
\* created, and it is not rejected when it fails none.
C31_ChecksInOrder ==
    \A p \in Procs :
        HandlerAdd(p) =>
            CASE FirstFailing(p) = "empty" -> EmptyRejected(p)
              [] FirstFailing(p) = "negative" -> NegativeRejected(p)
              [] FirstFailing(p) \in {"size", "cap"} ->
                     /\ pc[p] = "done"
                     /\ req[p].res.kind = "BadRequest"
                     /\ HoldsNoLock(p)
              [] OTHER -> req[p].res.kind \in {"None", "Ok"}

\* The shard whose lock the next step of p has to take, 0 when the step takes
\* none.
WantsShard(p) ==
    IF pc[p] \in {"contains_key", "entry", "get"} THEN ShardOf[req[p].symbol]
    ELSE IF pc[p] = "len" THEN req[p].i
    ELSE 0

\* The processes whose guards keep p from taking its next step.
Blockers(p) ==
    IF WantsShard(p) = 0 THEN {}
    ELSE LET sh == lock[WantsShard(p)]
         IN IF pc[p] = "entry"
            THEN (({sh.writer} \ {0}) \cup sh.readers) \ {p}
            ELSE {sh.writer} \ {0, p}

\* C32: an add_batch or get_stats never has to wait for a lock held by an
\* operation in progress on a different symbol: whoever blocks the next step
\* of an operation works on the same symbol.
C32_NoCrossSymbolWait ==
    \A p \in Procs :
        \A q \in Blockers(p) : req[q].symbol = req[p].symbol

(***************************************************************************)
(* The cursors of the loop of query (segment_tree.rs 138-154), without the *)
(* nodes: one record per iteration, with the cursors the iteration starts  *)
(* from, which of its two branches it takes, and the cursors it ends with. *)
(***************************************************************************)
\* A cursor that moves one place down instead of up to the parent.
ParentCreep(i) == IF i > 1 THEN i - 1 ELSE 0

\* left /= 2; right /= 2
Parent(i) == i \div 2

RECURSIVE QueryCursors(_, _)
QueryCursors(left, right) ==
    IF left <= right
    THEN LET takeL == left % 2 = 1
             takeR == right % 2 = 0
             l1 == IF takeL THEN left + 1 ELSE left
             r1 == IF takeR THEN right - 1 ELSE right
         IN <<[left |-> left, right |-> right, takeL |-> takeL, takeR |-> takeR,
               upLeft |-> Parent(l1), upRight |-> Parent(r1)]>>
                \o QueryCursors(Parent(l1), Parent(r1))
    ELSE <<>>

\* The iterations of query(left, right) on a tree of this capacity.
QueryIterations(capacity, left, right) ==
    IF left > right THEN <<>>
    ELSE QueryCursors(left + capacity, right + capacity)

\* The merges of one iteration: res_left + tree[left], tree[right] + res_right.
MergesOf(it) == (IF it.takeL THEN 1 ELSE 0) + (IF it.takeR THEN 1 ELSE 0)

RECURSIVE FloorLog2(_)
FloorLog2(n) == IF n <= 1 THEN 0 ELSE 1 + FloorLog2(n \div 2)

RECURSIVE TwoTo(_)
TwoTo(k) == IF k <= 0 THEN 1 ELSE 2 * TwoTo(k - 1)

\* C33: for every capacity C >= 1 and every 0 <= l <= r < C, the loop of
\* query(l, r) ends after at most floor(log2(2 * C)) + 1 iterations, and an
\* iteration merges at most two nodes; the k-th iteration works one level
\* above the one before it, its cursors being at most (2 * C - 1) / 2^(k-1).
C33_QueryIterationsBounded ==
    (Queried /\ req[1].i <= req[1].j /\ req[1].j < TreeOf.capacity) =>
        LET its == QueryIterations(TreeOf.capacity, req[1].i, req[1].j)
        IN /\ TreeOf.capacity >= 1
           /\ Len(its) >= 1
           /\ Len(its) <= FloorLog2(2 * TreeOf.capacity) + 1
           /\ \A k \in DOMAIN its :
                  /\ MergesOf(its[k]) <= 2
                  /\ its[k].right <= (2 * TreeOf.capacity - 1) \div TwoTo(k - 1)

\* A query over a whole tree of four leaves: three iterations, the last of
\* which merges the root.
C33_Witness ==
    /\ Queried
    /\ TreeOf.capacity = 4
    /\ req[1].i = 0
    /\ req[1].j = 3
    /\ Len(TreeLog) = 4
    /\ Len(QueryIterations(4, 0, 3)) = 3
    /\ MergesOf(QueryIterations(4, 0, 3)[3]) = 1
    /\ req[1].res = TreeOf.tree[1]

(***************************************************************************)
(* Fair scheduling.  A request thread that can take a step takes one: a    *)
(* step that waits for nothing is enabled until it is taken, a step that   *)
(* takes a shard lock is enabled for as long as the lock can be granted    *)
(* (weak fairness on both; nothing is assumed about the order in which the *)
(* RwLock serves its waiters).  The operations the claim is about are the  *)
(* ones that have been issued: the clients send finitely many requests,    *)
(* which ones and when being up to them.                                   *)
(***************************************************************************)
\* The steps of p that compute on the tree: an iteration of one of the two
\* loops, the query of get_stats.  They wait for nothing.
Computes(p) ==
    \/ AddBatchLoop(p)
    \/ AddBatchHandlerLoop(p)
    \/ GetStatsCompute(p)

Runs(p) == Computes(p) \/ Return(p)

\* The steps of p that take a shard lock.
Acquires(p) ==
    \/ AddBatchContainsKey(p)
    \/ AddBatchLen(p)
    \/ AddBatchEntry(p)
    \/ AddBatchHandlerEntry(p)
    \/ GetStatsGet(p)

\* p is at a step of Computes.  This is ENABLED <<Computes(p)>>_vars: the
\* step waits for nothing and changes symbols, pc or req.
CanCompute(p) == pc[p] \in {"loop", "compute"}

\* p is at a step of Runs.
CanRun(p) == CanCompute(p) \/ pc[p] = "done"

\* WF_vars(Computes(p)), written out with CanCompute(p) in the place of
\* ENABLED.
ComputesWeaklyFair(p) == <>[]CanCompute(p) => []<><<Computes(p)>>_vars

FairScheduling ==
    \A p \in Procs :
        /\ ComputesWeaklyFair(p)
        /\ WF_vars(Return(p))
        /\ WF_vars(Acquires(p))

\* A step in which a client's request reaches a thread.
IssuesRequest == \E p \in Procs : pc[p] = "idle" /\ pc'[p] # "idle"

\* From some point on no new request arrives.
RequestsEnd == <>[][~IssuesRequest]_vars

\* The requests the fair runs are driven with: every kind of operation,
\* on either symbol, with one window; a symbol is sent one sample, when it
\* is new, and empty batches without end after that.
FairBatches(s) == IF s \in Keys THEN {<<>>} ELSE {<<>>, <<0>>}

NextFair ==
    \E p \in Procs :
        \/ \E s \in Symbols : \E b \in FairBatches(s) : CallAddBatch(p, s, b)
        \/ \E s \in Symbols \ Keys : CallAddBatchHandler(p, s, <<0>>)
        \/ \E s \in Symbols : CallGetStats(p, s, 1)
        \/ \E s \in Symbols : CallGetStatsHandler(p, s, 1)
        \/ Runs(p)
        \/ Acquires(p)

SpecFair == Init /\ [][NextFair]_vars /\ FairScheduling /\ RequestsEnd

\* The guards p holds: one element per shard it has write-locked and per
\* shard it has read-locked.
GuardsHeld(p) ==
    {<<sh, "w">> : sh \in {x \in Shards : lock[x].writer = p}}
        \cup {<<sh, "r">> : sh \in {x \in Shards : p \in lock[x].readers}}

\* No operation holds two guards, a thread that is not in an operation holds
\* none, and whoever keeps an operation waiting can itself take a step.
OneGuardNoDeadlock ==
    /\ \A p \in Procs :
           /\ Cardinality(GuardsHeld(p)) <= 1
           /\ pc[p] \in {"idle", "panicked"} => HoldsNoLock(p)
    /\ \A p \in Procs :
           Blockers(p) # {} => \E q \in Blockers(p) : CanRun(q)

\* C34: under fair scheduling every add_batch and get_stats that has been
\* issued eventually returns; an operation holds at most one map guard at a
\* time and has released it when it has returned, so there is no deadlock.
C34_EveryOperationReturns ==
    /\ []OneGuardNoDeadlock
    /\ \A p \in Procs : (pc[p] # "idle") ~> (pc[p] = "idle")

\* An add waits at entry() for the shard a get_stats is reading under its
\* Ref, while a sample of an earlier add is in the store.
C34_Witness ==
    \E p, q \in Procs :
        /\ pc[p] = "entry"
        /\ Adding(p)
        /\ pc[q] = "compute"
        /\ q \in Blockers(p)
        /\ Cardinality(GuardsHeld(q)) = 1
        /\ Len(Log(req[q].symbol)) = 1

\* An add on symbol s that has taken the entry and is about to append the
\* first value of its batch: it holds the write lock of the shard, so no
\* other thread sees s.
CreatingSymbol(p, s) ==
    /\ Adding(p)
    /\ req[p].symbol = s
    /\ pc[p] = "loop"
    /\ req[p].j = 1
    /\ Len(req[p].values) >= 1
    /\ lock[ShardOf[s]].writer = p

C36_ExponentBeforeLookup ==
    \A p \in Procs :
        HandlerStats(p) =>
            /\ (req[p].exponent \notin 1 .. 8 /\ req[p].symbol \notin Keys) =>
                   /\ pc[p] = "done"
                   /\ req[p].res.kind = "BadRequest"
                   /\ StatusCode(req[p].res) = 400
            /\ req[p].res.kind = "SymbolNotFound" =>
                   /\ req[p].exponent \in 1 .. 8
                   /\ StatusCode(req[p].res) = 404

\* Exponent 9 for a symbol the store does not hold, answered 400, and
\* exponent 1 for the same symbol, answered 404.
C36_Witness ==
    \E p, q \in Procs :
        /\ HandlerStats(p)
        /\ req[p].exponent = 9
        /\ req[p].symbol \notin Keys
        /\ pc[p] = "done"
        /\ req[p].res.kind = "BadRequest"
        /\ StatusCode(req[p].res) = 400
        /\ HandlerStats(q)
        /\ req[q].symbol = req[p].symbol
        /\ req[q].exponent = 1
        /\ req[q].res.kind = "SymbolNotFound"
        /\ Keys # {}

\* No add on symbol s has been called and not yet ended.
NoAddInProgress(s) ==
    \A p \in Procs :
        ~(Adding(p) /\ req[p].symbol = s /\ pc[p] \notin {"idle", "panicked"})

\* The tree array of s holds exactly 2 * C nodes and C is at least the
\* length of the log.
TreeShapeOK(s) ==
    LET st == symbols[s].tree
    IN /\ st.capacity >= 1
       /\ DOMAIN st.tree = 0 .. (2 * st.capacity - 1)
       /\ Cardinality(DOMAIN st.tree) = 2 * st.capacity
       /\ st.capacity >= Len(symbols[s].values)

\* A step keeps every symbol and does not lower the capacity of its tree.
CapacityGrowsOnly ==
    \A s \in Keys :
        /\ s \in DOMAIN symbols'
        /\ symbols'[s].tree.capacity >= symbols[s].tree.capacity

\* C37: for every symbol, whenever no add_batch on it is in progress, the
\* tree array holds exactly 2 * C nodes and the capacity C is at least the
\* length of the sample log; across any sequence of operations C never
\* decreases.
C37_CapacityInvariant ==
    /\ [](\A s \in Keys : NoAddInProgress(s) => TreeShapeOK(s))
    /\ [][CapacityGrowsOnly]_vars

\* A symbol at rest whose tree has grown from STARTING_CAPACITY to twice
\* that for its third sample.
C37_Witness ==
    \E s \in Keys :
        /\ NoAddInProgress(s)
        /\ Len(Log(s)) = STARTING_CAPACITY + 1
        /\ symbols[s].tree.capacity = 2 * STARTING_CAPACITY
        /\ Cardinality(DOMAIN symbols[s].tree.tree) = 4 * STARTING_CAPACITY
        /\ succeeded[s]

\* C38: for every symbol, whenever no add_batch on it is in progress, every
\* leaf at a position i >= length(log) is the identity node, the count
\* aggregated at the root equals the length of the log, and the query over
\* the window [N - w, N - 1] has count exactly w, for every 1 <= w <= N.
C38_UnusedLeavesAreIdentity ==
    \A s \in Keys :
        NoAddInProgress(s) =>
            LET st == symbols[s].tree
                N == Len(symbols[s].values)
            IN /\ \A i \in N .. (st.capacity - 1) :
                      st.tree[st.capacity + i] = NodeDefault
               /\ \A i \in 0 .. (N - 1) : st.tree[st.capacity + i].count = 1
               /\ st.tree[1].count = N
               /\ \A w \in 1 .. N : Query(st, N - w, N - 1).count = w

\* A symbol at rest with three samples in a tree of four leaves: the fourth
\* leaf is the identity and the window of two has count two.
C38_Witness ==
    \E s \in Keys :
        /\ NoAddInProgress(s)
        /\ Len(Log(s)) = 3
        /\ symbols[s].tree.capacity = 4
        /\ symbols[s].tree.tree[7] = NodeDefault
        /\ symbols[s].tree.tree[6].count = 1
        /\ symbols[s].tree.tree[1].count = 3
        /\ Query(symbols[s].tree, 1, 2).count = 2

\* query with the cursors left where the caller put them, not moved to the
\* leaves.
QueryIndicesUnshifted(capacity, left, right) ==
    IF left > right THEN {}
    ELSE LET its == QueryCursors(left, right)
         IN {its[k].left : k \in {n \in DOMAIN its : its[n].takeL}}
                \cup {its[k].right : k \in {n \in DOMAIN its : its[n].takeR}}

\* The indices of the array query(left, right) reads: tree[left] in the
\* iterations that take the left branch, tree[right] in those that take the
\* right one.
QueryIndices(capacity, left, right) ==
    LET its == QueryIterations(capacity, left, right)
    IN {its[k].left : k \in {n \in DOMAIN its : its[n].takeL}}
           \cup {its[k].right : k \in {n \in DOMAIN its : its[n].takeR}}

\* The indices the while loop of update_internal reads and writes from the
\* cursor index on: the parent, and its two children.
RECURSIVE WalkUpIndices(_)
WalkUpIndices(index) ==
    IF index > 1
    THEN {Parent(index), 2 * Parent(index), 2 * Parent(index) + 1}
             \cup WalkUpIndices(Parent(index))
    ELSE {}

\* The indices update_internal(index, value) reads and writes.
UpdateIndices(capacity, index) ==
    {index + capacity} \cup WalkUpIndices(index + capacity)

\* The run has ended with query(l, r) for 0 <= l <= r < C.
QueriedInRange ==
    /\ Queried
    /\ 0 <= req[1].i
    /\ req[1].i <= req[1].j
    /\ req[1].j < TreeOf.capacity

\* C39 as stated: the cursors left and right of query never reach 0.
C39_CursorsNeverReachZero ==
    QueriedInRange =>
        LET its == QueryIterations(TreeOf.capacity, req[1].i, req[1].j)
        IN \A k \in DOMAIN its :
               /\ its[k].left >= 1
               /\ its[k].right >= 1
               /\ its[k].upLeft >= 1
               /\ its[k].upRight >= 1

\* C39 as amended: for every capacity C >= 1, every update(i, v) with i < C
\* and every query(l, r) with 0 <= l <= r < C read and write only tree
\* indices in [1, 2C - 1]: both cursors are at least 1 at the start of every
\* iteration, right -= 1 is applied to a cursor that is at least 2, and index
\* 0 is never accessed; right can become 0 only by the halving that ends the
\* loop, and left never does.
C39_IndicesInRange ==
    pc[1] = "tree" =>
        LET C == TreeOf.capacity
        IN /\ C >= 1
           /\ \A i \in 0 .. (C - 1) :
                  /\ UpdateIndices(C, i) \subseteq 1 .. (2 * C - 1)
                  /\ ~UpdateInternal(TreeOf, i, FInt(req[1].base)).panicked
           /\ QueriedInRange =>
                  LET its == QueryIterations(C, req[1].i, req[1].j)
                  IN /\ QueryIndices(C, req[1].i, req[1].j) \subseteq 1 .. (2 * C - 1)
                     /\ req[1].res # NodePanic
                     /\ \A k \in DOMAIN its :
                            /\ its[k].left >= 1
                            /\ its[k].right >= 1
                            /\ its[k].takeR => its[k].right >= 2
                            /\ its[k].upLeft >= 1
                            /\ its[k].upRight = 0 => k = Len(its)

\* query(0, 0) on a tree of one leaf, after an update of that leaf: one
\* iteration, which reads index 1 and leaves right at 0.
C39_Witness ==
    /\ QueriedInRange
    /\ TreeOf.capacity = 1
    /\ Len(TreeLog) = 1
    /\ req[1].i = 0
    /\ req[1].j = 0
    /\ req[1].res.count = 1
    /\ QueryIndices(1, 0, 0) = {1}
    /\ UpdateIndices(1, 0) = {1}
    /\ QueryIterations(1, 0, 0)[1].upRight = 0
=============================================================================
